---- MODULE Spec2Model ----
(***************************************************************************)
(* The DRA kubelet-plugin client of pkg/kubelet/cm/dra/plugin/plugin.go:   *)
(* the lazily created gRPC connection shared by all callers of a Plugin,   *)
(* the discovery of the API version the plugin speaks (v1beta1, falling    *)
(* back to v1alpha4), the two dispatch calls NodePrepareResources and      *)
(* NodeUnprepareResources, and the metrics interceptor installed on the    *)
(* connection.  Every caller is a goroutine; a step of the model is one    *)
(* step of one goroutine.                                                  *)
(***************************************************************************)
EXTENDS Integers, Sequences, FiniteSets, TLC

\* Bounds of the model.
NumCallers == 2
MaxCalls == 3

Callers == 1..NumCallers

\* Zero values of the Go types.
Unlocked == 0
NilConn == 0
NilPlugin == "<nil>"
nilErr == "<nil>"
NilResponse == [api |-> "", op |-> ""]

\* type apiVersion string; the zero value "" is "not discovered yet".
apiUnknown == ""
apiV1alpha4 == "v1alpha4"
apiV1beta1 == "v1beta1"

\* The names a caller may look up: two driver names and the empty name.
PluginNames == {"driver-A", "driver-B"}
LookupNames == PluginNames \cup {""}

\* The two dispatch operations of a Plugin.
Ops == {"NodePrepareResources", "NodeUnprepareResources"}

\* gRPC status codes an attempt ends with: success, the "unimplemented
\* method" signal, and DeadlineExceeded for every other error (the code
\* treats all of them alike).
Codes == {"OK", "Unimplemented", "DeadlineExceeded"}

\* The errors of getOrCreateGRPCConn: grpc.Dial's error and the wait's.
errDial == "grpc.Dial failed"
errTimedOut == "timed out waiting for gRPC connection to be ready"

\* status.Code(err) / status.Convert(err).Code(): OK for nil, the status code
\* of a gRPC status error, Unknown for any other error.
Code(err) ==
    IF err = nilErr THEN "OK"
    ELSE IF err \in Codes THEN err
    ELSE "Unknown"

\* The error the invoker returns for a server answer: nil for OK.
InvokerErr(code) == IF code = "OK" THEN nilErr ELSE code

\* The response of the generated client: nil together with an error.
ClientResponse(api, op, err) ==
    IF err = nilErr THEN [api |-> api, op |-> op] ELSE NilResponse

\* The gRPC method an attempt invokes: the service of the API version and
\* the operation.
Method(api, op) == <<api, op>>
Methods == {Method(a, o) : a \in {apiV1alpha4, apiV1beta1}, o \in Ops}

\* The label values of metrics.DRAGRPCOperationsDuration.
Labels == PluginNames \X Methods \X (Codes \cup {"Unknown"})

(***************************************************************************)
(* The DynamicWeight scheduler plugin: weights loaded from a ConfigMap,    *)
(* node usage queried from Prometheus and cached per node.  Weights and    *)
(* usage values are counted in hundredths (0.25 is 25), times in the unit  *)
(* the cache timeout is given in.                                          *)
(***************************************************************************)

\* The largest time the clock of the scheduler reaches.
MaxClock == 1

\* The timeout the NodeUsageCache is constructed with.
CacheTimeout == 1

Nodes == {"node-1", "node-2"}

Resources == {"cpu", "memory", "diskio", "netio"}

\* The zero time.Time of a NodeUsage that was never stored.
NoTime == -1

\* A nil *NodeUsage.
NilUsage ==
    [CPU |-> 0, Memory |-> 0, DiskIO |-> 0, Network |-> 0, Timestamp |-> NoTime]

\* A weights map without entries.
NoWeights == [r \in Resources |-> 0]

\* "&DynamicWeightArgs{}": the arguments before the first load.
EmptyArgs == [DefaultWeights |-> NoWeights, LabelWeights |-> [l \in {} |-> NoWeights]]

\* The config.json of the deployed ConfigMap, and of an updated one.
DeployedConfig ==
    [DefaultWeights |-> [r \in Resources |-> 25],
     LabelWeights |-> [l \in {"cpu-prefer"} |->
                         [r \in Resources |-> IF r = "cpu" THEN 70 ELSE 10]]]

UpdatedConfig ==
    [DefaultWeights |-> [r \in Resources |-> IF r = "netio" THEN 70 ELSE 10],
     LabelWeights |-> [l \in {"cpu-prefer"} |->
                         [r \in Resources |->
                            IF r = "cpu" THEN 50
                            ELSE IF r = "memory" THEN 30 ELSE 10]]]

ConfigMaps == {DeployedConfig, UpdatedConfig}

\* How loadConfig ends.
LoadOutcomes == {"ok", "fetch error", "missing key", "parse error"}

\* The pod has no resource-prefer label.
NoLabel == "<none>"

\* The resource-prefer label of the pods: none, one with weights, one without.
PodLabels == {NoLabel, "cpu-prefer", "gpu-prefer"}

\* A Prometheus query that failed or returned no sample.
QueryFailed == -1

\* The fractions Prometheus measures: idle and saturated.
Fractions == {0, 100}

\* What a query returns: a measured fraction, or a failure.
QueryResults == Fractions \cup {QueryFailed}

\* What the four queries of one call return: the node is idle or saturated
\* in all its resources, and each query answers or fails.
Measurements ==
    {m \in [Resources -> QueryResults] :
        \E u \in Fractions : \A r \in Resources : m[r] \in {u, QueryFailed}}

\* No query is answered.
NoMeasurement == [r \in Resources |-> QueryFailed]

\* How the node lookup ends.
LookupOutcomes == {"ok", "error", "no internal IP"}

\* "diskValue = 0.3" and "netValue = 0.2".
DiskDefault == 30
NetDefault == 20

\* The errors of getRealNodeUsage.
errNodeLookup == "node lookup failed"
errNoInternalIP == "node has no internal IP"
errCPUQuery == "cpu query failed"
errMemQuery == "memory query failed"

\* No Score call made yet.
NoScore ==
    [node |-> "", asked |-> [lookup |-> "error", m |-> NoMeasurement],
     hit |-> FALSE, err |-> nilErr, lookups |-> 0, queries |-> 0,
     usage |-> NilUsage, score |-> 0]

\* No loadConfig made yet.
NoLoad == [outcome |-> "", config |-> EmptyArgs]

VARIABLES
    draPlugins,     \* the registry: names of the registered plugins
    mutex,          \* Plugin.mutex: the caller holding it, or Unlocked
    conn,           \* Plugin.conn: a connection id, or NilConn
    supportedAPI,   \* Plugin.supportedAPI
    dialLog,        \* per Plugin, the outcome of every grpc.Dial made so far
    DRAGRPCOperationsDuration, \* the metric: observations per label values
    answered,       \* per label values, the attempts the invoker has returned from
    pc,             \* per caller, where its goroutine is
    handle,         \* per caller, the *Plugin it got from NewDRAPluginClient
    call,           \* per caller, the locals and the history of its call
    prev,           \* per caller, the call that preceded its call
    lastDone,       \* per Plugin, the call that returned last
    lookupErr,      \* per caller, whether its last lookup failed
    lookupName,     \* per caller, the name of its last lookup
    callsLeft,      \* how many more calls may start
    plugins,        \* per Plugin, the fields set at construction
    now,            \* the time, in seconds
    cancelledAt,    \* per Plugin, when its backgroundCtx was cancelled
    timer,          \* per caller, the deadlines of the contexts of its call
    clock,          \* time.Now() of the scheduler
    data,           \* NodeUsageCache.data: per node, the stored *NodeUsage
    args,           \* weightLoader.args
    dwState,        \* what New has returned: nothing yet, the plugin, an error
    informer,       \* whether the ConfigMap informer was started
    lastCall,       \* the last Score call: its inputs, its steps, its result
    lastSet,        \* per node, the time of the last NodeUsageCache.Set
    lastLoad        \* the last loadConfig: its outcome, the args before it

\* The state of the DRA plugin client, and of the scheduler plugin.
draVars == <<draPlugins, mutex, conn, supportedAPI, dialLog,
             DRAGRPCOperationsDuration, answered, pc, handle, call, prev,
             lastDone, lookupErr, lookupName, callsLeft, plugins, now,
             cancelledAt, timer>>

dwVars == <<clock, data, args, dwState, informer, lastCall, lastSet, lastLoad>>

vars == <<draVars, dwVars>>

\* A context that carries no deadline.
NoDeadline == -1

\* A call that has not started: the locals of the dispatch function at
\* their zero values, and an empty history.
NoCall ==
    [op |-> "", conn |-> NilConn, connErr |-> nilErr,
     readAPI |-> apiUnknown, supportedAPI |-> apiUnknown, api |-> "",
     response |-> NilResponse, err |-> nilErr,
     attempts |-> <<>>, obs |-> <<>>, dials |-> 0, stored |-> apiUnknown,
     startAPI |-> apiUnknown, startConn |-> NilConn, solo |-> FALSE,
     pconn |-> NilConn]

\* The contexts of a caller that is not in a call: ctx is the deadline of
\* the context the caller passes, waitEnd the deadline of the connect-wait,
\* deadline the one of the call's own context, derived at time connAt.
NoTimer ==
    [ctx |-> NoDeadline, waitEnd |-> NoDeadline, connAt |-> 0,
     deadline |-> NoDeadline, fallbackAt |-> 0]

\* No lookup made yet.
NoLookup == "<none>"

\* The backgroundCtx of a Plugin that was not cancelled.
NotCancelled == -1

\* The client call timeout the Plugins are constructed with, in seconds.
CallTimeout == 2

\* The second of "context.WithTimeout(context.Background(), time.Second)".
ConnectWait == 1

\* A context with the deadline d has expired.
Expired(d) == d # NoDeadline /\ now >= d

\* A call context that keeps the caller's deadline only.
CallDeadlineOfCaller(ctx, t, timeout) == ctx

\* "ctx, cancel := context.WithTimeout(ctx, p.clientCallTimeout)" at time t:
\* the deadline of the call's context is the earlier one of the caller's
\* deadline and t + timeout.
CallDeadline(ctx, t, timeout) ==
    IF ctx = NoDeadline \/ t + timeout < ctx THEN t + timeout ELSE ctx

\* The socket path a Plugin is registered with.
Endpoint(name) ==
    IF name = "driver-A" THEN "/run/plugins/driver-A.sock"
    ELSE "/run/plugins/driver-B.sock"

\* The fields of a Plugin that are set when it is constructed.
NewPlugin(name) ==
    [name |-> name, endpoint |-> Endpoint(name),
     clientCallTimeout |-> CallTimeout]

\* The state after the Plugins in registered were registered, no call made;
\* budget is the number of calls the callers make.
InitWith(registered, budget) ==
    /\ draPlugins = registered
    /\ mutex = [p \in PluginNames |-> Unlocked]
    /\ conn = [p \in PluginNames |-> NilConn]
    /\ supportedAPI = [p \in PluginNames |-> apiUnknown]
    /\ dialLog = [p \in PluginNames |-> <<>>]
    /\ DRAGRPCOperationsDuration = [l \in Labels |-> 0]
    /\ answered = [l \in Labels |-> 0]
    /\ pc = [c \in Callers |-> "idle"]
    /\ handle = [c \in Callers |-> NilPlugin]
    /\ call = [c \in Callers |-> NoCall]
    /\ prev = [c \in Callers |-> NoCall]
    /\ lastDone = [p \in PluginNames |-> NoCall]
    /\ lookupErr = [c \in Callers |-> FALSE]
    /\ lookupName = [c \in Callers |-> NoLookup]
    /\ callsLeft = budget
    /\ plugins = [p \in PluginNames |-> NewPlugin(p)]
    /\ now = 0
    /\ cancelledAt = [p \in PluginNames |-> NotCancelled]
    /\ timer = [c \in Callers |-> NoTimer]
    /\ clock = 0
    /\ data = [n \in Nodes |-> NilUsage]
    /\ args = EmptyArgs
    /\ dwState = "none"
    /\ informer = FALSE
    /\ lastCall = NoScore
    /\ lastSet = [n \in Nodes |-> NoTime]
    /\ lastLoad = NoLoad

Init == InitWith({"driver-A"}, MaxCalls)

\* draPlugins.get(name): the registered Plugin of that name, or nil.
RegistryGet(name) == IF name \in draPlugins THEN name ELSE NilPlugin

\* A lookup that makes up a Plugin for a name the registry does not have.
LookupResultOrNew(name) == IF name = "" THEN NilPlugin ELSE name

\* What NewDRAPluginClient returns as the Plugin: nil for the empty name and
\* for a name that is not registered, else the registry's Plugin.
LookupResult(name) == IF name = "" THEN NilPlugin ELSE RegistryGet(name)

\* NewDRAPluginClient(pluginName): an error for the empty name and for a
\* name that is not registered, else the registry's Plugin.
NewDRAPluginClient(c, name) ==
    /\ pc[c] = "idle"
    /\ handle[c] = NilPlugin
    /\ LET existingPlugin == LookupResult(name)
       IN /\ handle' = [handle EXCEPT ![c] = existingPlugin]
          /\ lookupErr' = [lookupErr EXCEPT ![c] = (existingPlugin = NilPlugin)]
    /\ lookupName' = [lookupName EXCEPT ![c] = name]
    /\ UNCHANGED <<timer, dwVars, plugins, now, cancelledAt, answered, draPlugins, mutex, conn, supportedAPI, dialLog,
                   DRAGRPCOperationsDuration, pc, call, prev, lastDone,
                   callsLeft>>

\* No other caller is inside a call on Plugin p.
Quiescent(c, p) ==
    \A d \in Callers \ {c} : handle[d] = p => pc[d] = "idle"

\* A caller enters NodePrepareResources or NodeUnprepareResources on the
\* Plugin it holds, with a context whose deadline is ctx.
StartCall(c, op, ctx) ==
    /\ pc[c] = "idle"
    /\ handle[c] # NilPlugin
    /\ callsLeft > 0
    /\ LET p == handle[c]
       IN /\ call' = [d \in Callers |->
                        IF d = c
                        THEN [NoCall EXCEPT !.op = op,
                                            !.startAPI = supportedAPI[p],
                                            !.startConn = conn[p],
                                            !.solo = Quiescent(c, p)]
                        ELSE IF handle[d] = p /\ pc[d] # "idle"
                             THEN [call[d] EXCEPT !.solo = FALSE]
                             ELSE call[d]]
          /\ prev' = [prev EXCEPT ![c] =
                        IF Quiescent(c, p) THEN lastDone[p] ELSE NoCall]
    /\ pc' = [pc EXCEPT ![c] = "getconn"]
    /\ callsLeft' = callsLeft - 1
    /\ timer' = [timer EXCEPT ![c] = [NoTimer EXCEPT !.ctx = ctx]]
    /\ UNCHANGED <<dwVars, plugins, now, cancelledAt, lookupName, answered, draPlugins, mutex, conn, supportedAPI, dialLog,
                   DRAGRPCOperationsDuration, handle, lastDone, lookupErr>>

\* A getOrCreateGRPCConn that does not take the mutex.
CanLockAlways(p) == TRUE

\* p.mutex.Lock() of getOrCreateGRPCConn returns when no caller holds the
\* mutex.
CanLock(p) == mutex[p] = Unlocked

\* p.mutex.Lock() before the version is stored returns when no caller holds
\* the mutex.
CanLockToStore(p) == mutex[p] = Unlocked

\* A Lock that takes one mutex for all Plugins.
LockAll(p, c) == [q \in PluginNames |-> c]

\* A Lock that locks nothing.
LockNothing(p, c) == mutex

\* p.mutex.Lock(): the caller holds the mutex of this Plugin.
Lock(p, c) == [mutex EXCEPT ![p] = c]

\* An Unlock that is forgotten.
UnlockForgotten(p) == mutex

\* "defer p.mutex.Unlock()": the mutex is released on every return of
\* getOrCreateGRPCConn, and after the version was stored.
Unlock(p) == [mutex EXCEPT ![p] = Unlocked]

\* A getOrCreateGRPCConn that does not look at the stored connection.
ConnIsSetNever(p) == FALSE

\* "if p.conn != nil": the Plugin already has its connection.
ConnIsSet(p) == conn[p] # NilConn

\* A getOrCreateGRPCConn that returns "" with the existing connection too.
CachedAPIForgotten(p) == apiUnknown

\* The version getOrCreateGRPCConn returns with the existing connection.
CachedAPI(p) == supportedAPI[p]

\* A dispatch call that goes on although getOrCreateGRPCConn failed.
AfterGetConnIgnoringErr(err) == "switch"

\* "if err != nil { return nil, err }" of the dispatch calls: where the call
\* continues after getOrCreateGRPCConn.
AfterGetConn(err) == IF err # nilErr THEN "return" ELSE "switch"

\* getOrCreateGRPCConn with a connection already stored: the mutex is taken,
\* the connection is returned with the stored version, without any network
\* activity, and the mutex is released.
ReturnExisting(c) ==
    /\ pc[c] = "getconn"
    /\ CanLock(handle[c])
    /\ ConnIsSet(handle[c])
    /\ LET p == handle[c]
       IN call' = [call EXCEPT ![c].conn = conn[p],
                               ![c].pconn = conn[p],
                               ![c].readAPI = CachedAPI(p),
                               ![c].supportedAPI = CachedAPI(p)]
    /\ pc' = [pc EXCEPT ![c] = AfterGetConn(nilErr)]
    /\ timer' = [timer EXCEPT
                   ![c].connAt = now,
                   ![c].deadline =
                       CallDeadline(timer[c].ctx, now,
                                    plugins[handle[c]].clientCallTimeout)]
    /\ UNCHANGED <<dwVars, plugins, now, cancelledAt, lookupName, answered, draPlugins, mutex, conn, supportedAPI, dialLog,
                   DRAGRPCOperationsDuration, handle, prev, lastDone,
                   lookupErr, callsLeft>>

\* getOrCreateGRPCConn without a stored connection: the mutex is taken and
\* grpc.Dial is called on the Plugin's endpoint.  Either it fails and the
\* error is returned, or it yields a new connection object, which has the
\* metrics interceptor of this Plugin chained in; the mutex stays held.
Dial(c) ==
    /\ pc[c] = "getconn"
    /\ CanLock(handle[c])
    /\ ~ConnIsSet(handle[c])
    /\ LET p == handle[c]
           id == Len(dialLog[p]) + 1
       IN \E ok \in BOOLEAN :
            IF ok
            THEN /\ dialLog' = [dialLog EXCEPT ![p] = Append(@, "waiting")]
                 /\ call' = [call EXCEPT ![c].conn = id,
                                         ![c].dials = @ + 1]
                 /\ pc' = [pc EXCEPT ![c] = "waiting"]
                 /\ mutex' = Lock(p, c)
                 /\ timer' = [timer EXCEPT ![c].waitEnd = now + ConnectWait]
            ELSE /\ dialLog' = [dialLog EXCEPT ![p] = Append(@, "error")]
                 /\ call' = [call EXCEPT ![c].conn = NilConn,
                                         ![c].pconn = conn[p],
                                         ![c].connErr = errDial,
                                         ![c].err = errDial,
                                         ![c].dials = @ + 1]
                 /\ pc' = [pc EXCEPT ![c] = AfterGetConn(errDial)]
                 /\ UNCHANGED <<mutex, timer>>
    /\ UNCHANGED <<dwVars, plugins, now, cancelledAt, lookupName, answered, draPlugins, conn, supportedAPI,
                   DRAGRPCOperationsDuration, handle, prev, lastDone,
                   lookupErr, callsLeft>>

\* A getOrCreateGRPCConn that stores the connection before it waits.
ConnAfterWaitAlways(p, id, ok) == id

\* What p.conn is after conn.WaitForStateChange returned ok for the
\* connection id: it is stored only when the wait succeeded.
ConnAfterWait(p, id, ok) == IF ok THEN id ELSE conn[p]

\* conn.WaitForStateChange under the one-second context, the mutex still
\* held: on expiry the error is returned and the new connection is dropped
\* (it is not closed); otherwise the connection is stored on the Plugin and
\* returned with the version "", and the dispatch call derives the context
\* of its attempts.
WaitForStateChange(c, ok) ==
    /\ pc[c] = "waiting"
    /\ LET p == handle[c]
           id == call[c].conn
       IN /\ conn' = [conn EXCEPT ![p] = ConnAfterWait(p, id, ok)]
          /\ dialLog' = [dialLog EXCEPT ![p][id] =
                           IF ok THEN "stored" ELSE "abandoned"]
          /\ call' = [call EXCEPT
                        ![c].conn = IF ok THEN conn'[p] ELSE NilConn,
                        ![c].pconn = conn'[p],
                        ![c].connErr = IF ok THEN nilErr ELSE errTimedOut,
                        ![c].err = IF ok THEN nilErr ELSE errTimedOut,
                        ![c].readAPI = apiUnknown,
                        ![c].supportedAPI = apiUnknown]
          /\ pc' = [pc EXCEPT ![c] =
                      AfterGetConn(IF ok THEN nilErr ELSE errTimedOut)]
          /\ mutex' = Unlock(p)
    /\ timer' = [timer EXCEPT
                   ![c].connAt = IF ok THEN now ELSE @,
                   ![c].deadline =
                       IF ok
                       THEN CallDeadline(timer[c].ctx, now,
                                         plugins[handle[c]].clientCallTimeout)
                       ELSE @]
    /\ UNCHANGED <<dwVars, plugins, now, cancelledAt, lookupName, answered, draPlugins, supportedAPI, DRAGRPCOperationsDuration,
                   handle, prev, lastDone, lookupErr, callsLeft>>

\* "switch supportedAPI": a known version is used as it is, an unknown one
\* (the default case) starts with v1beta1.  The client's call enters the
\* interceptor chain of the connection and the invoker sends the request.
Dispatch(c) ==
    /\ pc[c] = "switch"
    /\ LET api == IF call[c].supportedAPI \in {apiV1beta1, apiV1alpha4}
                  THEN call[c].supportedAPI
                  ELSE apiV1beta1
       IN call' = [call EXCEPT ![c].supportedAPI = api, ![c].api = api]
    /\ pc' = [pc EXCEPT ![c] = "rpc"]
    /\ UNCHANGED <<timer, dwVars, plugins, now, cancelledAt, lookupName, answered, draPlugins, mutex, conn, supportedAPI, dialLog,
                   DRAGRPCOperationsDuration, handle, prev, lastDone,
                   lookupErr, callsLeft>>

\* The label values of an attempt of caller c that ended with err: the
\* plugin name the interceptor was made with, the method, status.Code(err).
AttemptLabel(c, err) ==
    <<handle[c], Method(call[c].api, call[c].op), Code(err)>>

\* The invoker returns: the server (or the transport, or the call's
\* deadline) has answered the attempt with a status code.
InvokerReturns(c, code) ==
    /\ pc[c] = "rpc"
    /\ answered' = [answered EXCEPT
                       ![AttemptLabel(c, InvokerErr(code))] = @ + 1]
    /\ LET err == InvokerErr(code)
       IN call' = [call EXCEPT
                     ![c].err = err,
                     ![c].response = ClientResponse(call[c].api, call[c].op, err),
                     ![c].attempts = Append(@, [api |-> call[c].api,
                                                conn |-> call[c].conn,
                                                err |-> err])]
    /\ pc' = [pc EXCEPT ![c] = "observe"]
    /\ UNCHANGED <<timer, dwVars, plugins, now, cancelledAt, lookupName, draPlugins, mutex, conn, supportedAPI, dialLog,
                   DRAGRPCOperationsDuration, handle, prev, lastDone,
                   lookupErr, callsLeft>>

\* An interceptor that observes successful attempts only.
ObservationsOnSuccess(label) == IF label[3] = "OK" THEN <<label>> ELSE <<>>

\* The observations the interceptor makes for an attempt that ended:
\* one, whatever the status.
Observations(label) == <<label>>

\* The interceptor of newMetricsInterceptor(pluginName), after the invoker
\* returned: one observation labelled with the plugin name, the method and
\* status.Code(err), then the error is handed on to the client.
Observe(c) ==
    /\ pc[c] = "observe"
    /\ LET label == AttemptLabel(c, call[c].err)
           seen == Observations(label)
       IN /\ DRAGRPCOperationsDuration' =
                IF seen = <<>> THEN DRAGRPCOperationsDuration
                ELSE [DRAGRPCOperationsDuration EXCEPT ![seen[1]] = @ + Len(seen)]
          /\ call' = [call EXCEPT ![c].obs = @ \o seen]
    /\ pc' = [pc EXCEPT ![c] = "after"]
    /\ UNCHANGED <<timer, dwVars, plugins, now, cancelledAt, lookupName, answered, draPlugins, mutex, conn, supportedAPI, dialLog,
                   handle, prev, lastDone, lookupErr, callsLeft>>

\* A fallback on every error.
ShouldFallBackOnAnyError(err) == err # nilErr

\* "err != nil && status.Convert(err).Code() == codes.Unimplemented"
ShouldFallBack(err) == err # nilErr /\ Code(err) = "Unimplemented"

\* A default case that stores the version whatever the outcome.
ShouldStoreAlways(err) == TRUE

\* "err == nil || status.Convert(err).Code() != codes.Unimplemented"
ShouldStore(err) == err = nilErr \/ Code(err) # "Unimplemented"

\* The same two tests as NodeUnprepareResources has them.
ShouldFallBackUnprepare(err) == err # nilErr /\ Code(err) = "Unimplemented"

ShouldStoreUnprepare(err) == err = nilErr \/ Code(err) # "Unimplemented"

\* The test of the operation op that sends the call to v1alpha4.
FallsBack(op, err) ==
    IF op = "NodePrepareResources" THEN ShouldFallBack(err)
    ELSE ShouldFallBackUnprepare(err)

\* The test of the operation op that lets the version be stored.
Stores(op, err) ==
    IF op = "NodePrepareResources" THEN ShouldStore(err)
    ELSE ShouldStoreUnprepare(err)

\* A fallback that derives a deadline of its own.
FallbackDeadlineRenewed(c) ==
    CallDeadline(timer[c].ctx, now, plugins[handle[c]].clientCallTimeout)

\* The deadline of the context the v1alpha4 attempt is made with: the ctx
\* of the v1beta1 attempt.
FallbackDeadline(c) == timer[c].deadline

\* The version the default case falls back to.
FallbackAPI == apiV1alpha4

\* The call is in the default case of the switch and its v1beta1 attempt
\* has just ended.
AfterFirstProbe(c) ==
    /\ call[c].readAPI = apiUnknown
    /\ Len(call[c].attempts) = 1

\* The default case, after the v1beta1 attempt: on Unimplemented the same
\* request is sent with the v1alpha4 client over the same connection.
Fallback(c) ==
    /\ pc[c] = "after"
    /\ AfterFirstProbe(c)
    /\ FallsBack(call[c].op, call[c].err)
    /\ call' = [call EXCEPT ![c].supportedAPI = FallbackAPI,
                            ![c].api = FallbackAPI]
    /\ pc' = [pc EXCEPT ![c] = "rpc"]
    /\ timer' = [timer EXCEPT ![c].deadline = FallbackDeadline(c),
                              ![c].fallbackAt = now]
    /\ UNCHANGED <<dwVars, plugins, now, cancelledAt, lookupName, answered, draPlugins, mutex, conn, supportedAPI, dialLog,
                   DRAGRPCOperationsDuration, handle, prev, lastDone,
                   lookupErr, callsLeft>>

\* A default case that stores the version it tried first.
VersionToStoreFirstProbe(c) == apiV1beta1

\* "p.supportedAPI = supportedAPI": the version the default case stores is
\* its local supportedAPI, the version of its last attempt.
VersionToStore(c) == call[c].supportedAPI

\* The end of the default case when its last attempt did not end with
\* Unimplemented: the mutex is taken, "p.supportedAPI = supportedAPI", and
\* the mutex is released.
StoreVersion(c) ==
    /\ pc[c] = "after"
    /\ ~(AfterFirstProbe(c) /\ FallsBack(call[c].op, call[c].err))
    /\ call[c].readAPI = apiUnknown
    /\ Stores(call[c].op, call[c].err)
    /\ CanLockToStore(handle[c])
    /\ supportedAPI' = [supportedAPI EXCEPT ![handle[c]] = VersionToStore(c)]
    /\ call' = [call EXCEPT ![c].stored = VersionToStore(c)]
    /\ pc' = [pc EXCEPT ![c] = "return"]
    /\ UNCHANGED <<timer, dwVars, plugins, now, cancelledAt, lookupName, answered, draPlugins, mutex, conn, dialLog,
                   DRAGRPCOperationsDuration, handle, prev, lastDone,
                   lookupErr, callsLeft>>

\* The end of the switch with nothing to store: the cases of a known
\* version, and the default case whose last attempt ended with
\* Unimplemented.
SkipStore(c) ==
    /\ pc[c] = "after"
    /\ ~(AfterFirstProbe(c) /\ FallsBack(call[c].op, call[c].err))
    /\ ~(call[c].readAPI = apiUnknown /\ Stores(call[c].op, call[c].err))
    /\ pc' = [pc EXCEPT ![c] = "return"]
    /\ UNCHANGED <<timer, dwVars, plugins, now, cancelledAt, lookupName, answered, draPlugins, mutex, conn, supportedAPI, dialLog,
                   DRAGRPCOperationsDuration, handle, call, prev, lastDone,
                   lookupErr, callsLeft>>

\* "return response, err": the call is over.
Return(c) ==
    /\ pc[c] = "return"
    /\ lastDone' = [lastDone EXCEPT ![handle[c]] = call[c]]
    /\ call' = [call EXCEPT ![c] = NoCall]
    /\ prev' = [prev EXCEPT ![c] = NoCall]
    /\ pc' = [pc EXCEPT ![c] = "idle"]
    /\ timer' = [timer EXCEPT ![c] = NoTimer]
    /\ UNCHANGED <<dwVars, plugins, now, cancelledAt, lookupName, answered, draPlugins, mutex, conn, supportedAPI, dialLog,
                   DRAGRPCOperationsDuration, handle, lookupErr, callsLeft>>

Next ==
    \/ \E c \in Callers, name \in LookupNames : NewDRAPluginClient(c, name)
    \/ \E c \in Callers, op \in Ops : StartCall(c, op, NoDeadline)
    \/ \E c \in Callers : ReturnExisting(c)
    \/ \E c \in Callers : Dial(c)
    \/ \E c \in Callers, ok \in BOOLEAN : WaitForStateChange(c, ok)
    \/ \E c \in Callers : Dispatch(c)
    \/ \E c \in Callers, code \in Codes : InvokerReturns(c, code)
    \/ \E c \in Callers : Observe(c)
    \/ \E c \in Callers : Fallback(c)
    \/ \E c \in Callers : StoreVersion(c)
    \/ \E c \in Callers : SkipStore(c)
    \/ \E c \in Callers : Return(c)

Spec == Init /\ [][Next]_vars

(***************************************************************************)
(* Two registered Plugins.                                                 *)
(***************************************************************************)

\* The number of calls made when both Plugins are registered.
TwoPluginCalls == 2

InitTwo == InitWith(PluginNames, TwoPluginCalls)

SpecTwo == InitTwo /\ [][Next]_vars

(***************************************************************************)
(* Time.  The actions above say what can happen in which order; here the   *)
(* clock decides which outcome of a wait or of an attempt happens: the     *)
(* wait of getOrCreateGRPCConn fails exactly when its one-second context   *)
(* has expired, and an attempt whose context has expired ends with         *)
(* DeadlineExceeded, at the deadline at the latest.                        *)
(***************************************************************************)

\* The clock stops here.
MaxTime == 2

\* The number of calls made under the clock.
TimedCalls == 2

\* The timeout of the context a caller may pass, in seconds.
CallerTimeout == 1

\* The deadlines of the context a caller passes now: none, or its timeout.
CtxDeadlines == {NoDeadline, now + CallerTimeout}

InitTimed == InitWith({"driver-A"}, TimedCalls)

\* conn.WaitForStateChange(ctx, connectivity.Connecting) returns false when
\* its context has expired, and true when the state changed before that.
TimedWaitForStateChange(c) ==
    WaitForStateChange(c, ~Expired(timer[c].waitEnd))

\* The invoker returns the server's answer while the context of the call is
\* alive, and DeadlineExceeded once it has expired.
TimedInvokerReturns(c, code) ==
    /\ Expired(timer[c].deadline) => code = "DeadlineExceeded"
    /\ InvokerReturns(c, code)

\* The Plugin's background context is cancelled (p.cancel) while a caller
\* is in the connect-wait of the Plugin.  In this file the context is read
\* for its logger only.
CancelBackground(p) ==
    /\ p \in draPlugins
    /\ cancelledAt[p] = NotCancelled
    /\ \E c \in Callers : handle[c] = p /\ pc[c] = "waiting"
    /\ cancelledAt' = [cancelledAt EXCEPT ![p] = now]
    /\ UNCHANGED <<timer, dwVars, plugins, now, lookupName, answered, draPlugins, mutex,
                   conn, supportedAPI, dialLog, DRAGRPCOperationsDuration,
                   pc, handle, call, prev, lastDone, lookupErr, callsLeft>>

\* A second passes.  A wait and an attempt return when their context
\* expires, so the clock does not pass a deadline they are blocked on.
\* Seconds are counted while a call is in flight only: between calls
\* nothing reads the clock.
Tick ==
    /\ now < MaxTime
    /\ \E c \in Callers : pc[c] # "idle"
    /\ \A c \in Callers :
          /\ pc[c] = "waiting" => ~Expired(timer[c].waitEnd)
          /\ pc[c] = "rpc" => ~Expired(timer[c].deadline)
    /\ now' = now + 1
    /\ UNCHANGED <<timer, dwVars, plugins, cancelledAt, lookupName, answered, draPlugins,
                   mutex, conn, supportedAPI, dialLog,
                   DRAGRPCOperationsDuration, pc, handle, call, prev,
                   lastDone, lookupErr, callsLeft>>

NextTimed ==
    \/ \E c \in Callers, name \in LookupNames : NewDRAPluginClient(c, name)
    \/ \E c \in Callers, op \in Ops, ctx \in CtxDeadlines : StartCall(c, op, ctx)
    \/ \E c \in Callers : ReturnExisting(c)
    \/ \E c \in Callers : Dial(c)
    \/ \E c \in Callers : TimedWaitForStateChange(c)
    \/ \E c \in Callers : Dispatch(c)
    \/ \E c \in Callers, code \in Codes : TimedInvokerReturns(c, code)
    \/ \E c \in Callers : Observe(c)
    \/ \E c \in Callers : Fallback(c)
    \/ \E c \in Callers : StoreVersion(c)
    \/ \E c \in Callers : SkipStore(c)
    \/ \E c \in Callers : Return(c)
    \/ Tick

SpecTimed == InitTimed /\ [][NextTimed]_vars

\* The number of calls made on a Plugin that may be cancelled.
CancelCalls == 2

InitCancel == InitWith({"driver-A"}, CancelCalls)

NextCancel ==
    \/ \E c \in Callers, name \in LookupNames : NewDRAPluginClient(c, name)
    \/ \E c \in Callers, op \in Ops : StartCall(c, op, NoDeadline)
    \/ \E c \in Callers : ReturnExisting(c)
    \/ \E c \in Callers : Dial(c)
    \/ \E c \in Callers : TimedWaitForStateChange(c)
    \/ \E c \in Callers : Dispatch(c)
    \/ \E c \in Callers, code \in Codes : TimedInvokerReturns(c, code)
    \/ \E c \in Callers : Observe(c)
    \/ \E c \in Callers : Fallback(c)
    \/ \E c \in Callers : StoreVersion(c)
    \/ \E c \in Callers : SkipStore(c)
    \/ \E c \in Callers : Return(c)
    \/ \E p \in PluginNames : CancelBackground(p)
    \/ Tick

SpecCancel == InitCancel /\ [][NextCancel]_vars

(***************************************************************************)
(* Progress.  Every goroutine that is inside a dispatch call is scheduled  *)
(* again: its next step is taken when it stays possible, where a dial, a   *)
(* connect-wait and an attempt are steps that return (the wait after a     *)
(* second at most, the attempt at the deadline of the call at the latest), *)
(* and p.mutex.Lock() returns once the mutex is free.                      *)
(***************************************************************************)

\* The number of calls made under the progress assumption.
LiveCalls == 2

InitLive == InitWith({"driver-A"}, LiveCalls)

\* The next step of the goroutine of caller c inside its call.
CallerStep(c) ==
    \/ ReturnExisting(c)
    \/ Dial(c)
    \/ \E ok \in BOOLEAN : WaitForStateChange(c, ok)
    \/ Dispatch(c)
    \/ \E code \in Codes : InvokerReturns(c, code)
    \/ Observe(c)
    \/ Fallback(c)
    \/ StoreVersion(c)
    \/ SkipStore(c)
    \/ Return(c)

Fairness == \A c \in Callers : WF_vars(CallerStep(c))

SpecLive == InitLive /\ [][Next]_vars /\ Fairness

(***************************************************************************)
(* The DynamicWeight scheduler plugin.  A Score call is one step: the      *)
(* cache is read and written under its lock, and the calls of concurrent   *)
(* scoring goroutines are taken one after the other.                       *)
(***************************************************************************)

\* What loadConfig decodes: the config.json of the ConfigMap when it ends
\* well, nothing when it fails.
Decoded(outcome) == IF outcome = "ok" THEN ConfigMaps ELSE {EmptyArgs}

\* A loadConfig that decodes into the active arguments.
ArgsAfterLoadInPlace(old, outcome, config) ==
    IF outcome = "ok" THEN config
    ELSE IF outcome = "parse error"
         THEN [old EXCEPT !.LabelWeights = config.LabelWeights]
         ELSE old

\* wl.args after loadConfig: the decoded newArgs when the ConfigMap was
\* fetched, had its config.json and was decoded, else what it was.
ArgsAfterLoad(old, outcome, config) == IF outcome = "ok" THEN config ELSE old

\* "go wl.startInformer()" is reached when the initial load succeeded.
InformerStarted(outcome) == outcome = "ok"

\* New: the weight loader makes its initial load; when it fails New returns
\* the error, else the informer is started and the plugin is returned with
\* an empty cache.
New(outcome, config) ==
    /\ dwState = "none"
    /\ config \in Decoded(outcome)
    /\ args' = ArgsAfterLoad(EmptyArgs, outcome, config)
    /\ informer' = InformerStarted(outcome)
    /\ dwState' = IF outcome = "ok" THEN "ready" ELSE "failed"
    /\ data' = [n \in Nodes |-> NilUsage]
    /\ lastLoad' = [outcome |-> outcome, config |-> config]
    /\ UNCHANGED <<draVars, clock, lastCall, lastSet>>

\* The UpdateFunc of the informer, for a ConfigMap with a new
\* ResourceVersion: loadConfig; its error is logged.
ConfigMapUpdated(outcome, config) ==
    /\ informer
    /\ config \in Decoded(outcome)
    /\ args' = ArgsAfterLoad(args, outcome, config)
    /\ lastLoad' = [outcome |-> outcome, config |-> config]
    /\ UNCHANGED <<draVars, clock, data, dwState, informer, lastCall, lastSet>>

\* GetWeights: a deep copy of the active arguments.
GetWeights == args

\* A Get that does not look at the age of the entry.
CacheGetAnyAge(node) == data[node]

\* NodeUsageCache.Get: the entry of the node when it is younger than the
\* timeout, else nil.
CacheGet(node) ==
    IF data[node] # NilUsage /\ clock - data[node].Timestamp < CacheTimeout
    THEN data[node]
    ELSE NilUsage

\* NodeUsageCache.Set: the usage gets the time as its Timestamp and becomes
\* the entry of the node.
CacheSet(node, usage) ==
    [data EXCEPT ![node] = [usage EXCEPT !.Timestamp = clock]]

\* The value of the network query for a link used to the fraction u: the
\* query multiplies the ratio by 100.
NetQueryValue(u) == IF u = QueryFailed THEN QueryFailed ELSE u * 100

\* A disk query whose failure is an error value.
DiskValueUnchecked(q) == q

\* The disk and network values of the usage: the default when the query
\* failed.
DiskValue(q) == IF q = QueryFailed THEN DiskDefault ELSE q

NetValue(q) == IF q = QueryFailed THEN NetDefault ELSE q

\* getRealNodeUsage(node), with the outcome of the node lookup and the
\* measurements of the four queries: what it returns, how many lookups and
\* queries it made, and the cache it leaves.
getRealNodeUsage(node, lookup, cpu, mem, disk, net) ==
    LET cached == CacheGet(node)
        failed(e, l, q) ==
            [usage |-> NilUsage, err |-> e, hit |-> FALSE,
             lookups |-> l, queries |-> q, data |-> data]
        usage == [CPU |-> cpu, Memory |-> mem, DiskIO |-> DiskValue(disk),
                  Network |-> NetValue(NetQueryValue(net)),
                  Timestamp |-> NoTime]
    IN IF cached # NilUsage
       THEN [usage |-> cached, err |-> nilErr, hit |-> TRUE,
             lookups |-> 0, queries |-> 0, data |-> data]
       ELSE IF lookup = "error" THEN failed(errNodeLookup, 1, 0)
       ELSE IF lookup = "no internal IP" THEN failed(errNoInternalIP, 1, 0)
       ELSE IF cpu = QueryFailed THEN failed(errCPUQuery, 1, 1)
       ELSE IF mem = QueryFailed THEN failed(errMemQuery, 1, 2)
       ELSE [usage |-> CacheSet(node, usage)[node], err |-> nilErr,
             hit |-> FALSE, lookups |-> 1, queries |-> 4,
             data |-> CacheSet(node, usage)]

\* The weights of a pod: those of its resource-prefer label when the label
\* is there and LabelWeights has it, else DefaultWeights.
SelectWeights(a, label) ==
    IF label # NoLabel /\ label \in DOMAIN a.LabelWeights
    THEN a.LabelWeights[label]
    ELSE a.DefaultWeights

\* "score += weight * (1 - usage)" over the four resources, in 1/10000.
WeightedSum(w, u) ==
    w["cpu"] * (100 - u.CPU) + w["memory"] * (100 - u.Memory)
      + w["diskio"] * (100 - u.DiskIO) + w["netio"] * (100 - u.Network)

\* The conversion of a quotient to int64: towards zero.
Trunc(n, d) == IF n >= 0 THEN n \div d ELSE -((-n) \div d)

\* "int64(score * 100)"
NodeScore(w, u) == Trunc(WeightedSum(w, u), 100)

\* What a call meets on a cache miss: the outcome of the node lookup and
\* of the queries.  The queries a call does not reach have no outcome: they
\* are written as failed.
Environments ==
    {e \in [lookup : LookupOutcomes, m : Measurements] :
        /\ e.lookup # "ok" => e.m = NoMeasurement
        /\ e.m["cpu"] = QueryFailed => e.m["memory"] = QueryFailed
        /\ e.m["memory"] = QueryFailed => e.m["diskio"] = QueryFailed
        /\ e.m["memory"] = QueryFailed => e.m["netio"] = QueryFailed}

\* What a call meets on a cache hit: it makes no lookup and no query.
NothingAsked == [lookup |-> "error", m |-> NoMeasurement]

\* Score(pod, nodeName): the weights are read, the usage of the node is
\* taken from the cache or from Prometheus, and the score is computed; an
\* error of getRealNodeUsage gives the score 0 with an error status.
Score(label, node) ==
    /\ dwState = "ready"
    /\ \E e \in IF CacheGet(node) # NilUsage THEN {NothingAsked}
                ELSE Environments :
          LET got == getRealNodeUsage(node, e.lookup, e.m["cpu"],
                                      e.m["memory"], e.m["diskio"],
                                      e.m["netio"])
              weights == SelectWeights(GetWeights, label)
          IN /\ data' = got.data
             /\ lastSet' = IF got.err = nilErr /\ ~got.hit
                           THEN [lastSet EXCEPT ![node] = clock]
                           ELSE lastSet
             /\ lastCall' =
                   [node |-> node, asked |-> e, hit |-> got.hit,
                    err |-> got.err, lookups |-> got.lookups,
                    queries |-> got.queries, usage |-> got.usage,
                    score |-> IF got.err = nilErr
                              THEN NodeScore(weights, got.usage)
                              ELSE 0]
    /\ UNCHANGED <<draVars, clock, args, dwState, informer, lastLoad>>

\* Time passes.
Advance ==
    /\ clock < MaxClock
    /\ clock' = clock + 1
    /\ UNCHANGED <<draVars, data, args, dwState, informer, lastCall, lastSet,
                   lastLoad>>

InitDW == InitWith({}, 0)

NextDW ==
    \/ \E outcome \in LoadOutcomes : \E config \in Decoded(outcome) :
          New(outcome, config)
    \/ \E outcome \in LoadOutcomes : \E config \in Decoded(outcome) :
          ConfigMapUpdated(outcome, config)
    \/ \E label \in PodLabels, node \in Nodes : Score(label, node)
    \/ Advance

SpecDW == InitDW /\ [][NextDW]_vars

(***************************************************************************)
(* Properties.                                                             *)
(***************************************************************************)

\* Caller c is past getOrCreateGRPCConn, which gave it a connection.
HasConn(c) ==
    /\ pc[c] \in {"switch", "rpc", "observe", "after", "return"}
    /\ call[c].connErr = nilErr

\* Caller c is past getOrCreateGRPCConn.
PastGetConn(c) == pc[c] \in {"switch", "rpc", "observe", "after", "return"}

\* The other dispatch operation.
OtherOp(op) ==
    IF op = "NodePrepareResources" THEN "NodeUnprepareResources"
    ELSE "NodePrepareResources"

\* No dial of Plugin p has failed or timed out.
AllDialsSucceeded(p) ==
    \A i \in 1..Len(dialLog[p]) : dialLog[p][i] \in {"waiting", "stored"}

\* The last attempt of a call record that made one.
LastAttempt(r) == r.attempts[Len(r.attempts)]

\* C1: concurrent first calls on a Plugin without a connection, the dial
\* and the wait succeeding: one dial is made, whatever the interleaving, and
\* every caller gets the same connection, the one stored on the Plugin.
C1_OneDialSharedConn ==
    \A p \in PluginNames :
        /\ AllDialsSucceeded(p) => Len(dialLog[p]) <= 1
        /\ (AllDialsSucceeded(p) /\ \E c \in Callers : handle[c] = p /\ HasConn(c))
              => Len(dialLog[p]) = 1
        /\ \A c, d \in Callers :
              (handle[c] = p /\ handle[d] = p /\ HasConn(c) /\ HasConn(d))
                 => /\ call[c].conn = call[d].conn
                    /\ call[c].conn = conn[p]
                    /\ call[c].conn # NilConn

\* Two callers whose first calls overlapped on a cold Plugin both have the
\* connection; one of them dialed, the other did not.
C1_Witness ==
    \E c, d \in Callers :
        /\ c # d
        /\ handle[c] = "driver-A" /\ handle[d] = "driver-A"
        /\ lastDone["driver-A"] = NoCall
        /\ HasConn(c) /\ HasConn(d)
        /\ call[c].dials = 1 /\ call[d].dials = 0
        /\ Len(dialLog["driver-A"]) = 1

\* C2: the stored version only moves from unknown to v1alpha4 or v1beta1:
\* once stored it never becomes unknown again and never changes to the other
\* version.
C2_VersionNeverChanges ==
    [][\A p \in PluginNames :
          supportedAPI[p] # apiUnknown => supportedAPI'[p] = supportedAPI[p]]_vars

\* C3: a call that read the version as unknown tries v1beta1 first; exactly
\* when that ends with Unimplemented it makes one more attempt, on v1alpha4
\* and on the same connection, and returns that attempt's response and
\* error.  No call makes more than two attempts and none goes from v1alpha4
\* to v1beta1.
C3_ProbeThenFallBackOnce ==
    \A c \in Callers :
        LET a == call[c].attempts
        IN /\ Len(a) <= 2
           /\ (call[c].readAPI = apiUnknown /\ Len(a) >= 1)
                 => a[1].api = apiV1beta1
           /\ (pc[c] = "rpc" /\ call[c].readAPI = apiUnknown /\ Len(a) = 0)
                 => call[c].api = apiV1beta1
           /\ Len(a) = 2
                 => /\ call[c].readAPI = apiUnknown
                    /\ Code(a[1].err) = "Unimplemented"
                    /\ a[2].api = apiV1alpha4
                    /\ a[2].conn = a[1].conn
           /\ (pc[c] = "rpc" /\ Len(a) = 1)
                 => /\ Code(a[1].err) = "Unimplemented"
                    /\ call[c].api = apiV1alpha4
           /\ (pc[c] = "return" /\ HasConn(c) /\ call[c].readAPI = apiUnknown)
                 => /\ Len(a) >= 1
                    /\ (Code(a[1].err) = "Unimplemented") <=> (Len(a) = 2)
                    /\ call[c].err = LastAttempt(call[c]).err
                    /\ call[c].response =
                          ClientResponse(LastAttempt(call[c]).api, call[c].op,
                                         LastAttempt(call[c]).err)

\* A call that read unknown returns the successful answer of its v1alpha4
\* attempt, made after v1beta1 was answered with Unimplemented.
C3_Witness ==
    \E c \in Callers :
        /\ pc[c] = "return"
        /\ call[c].readAPI = apiUnknown
        /\ Len(call[c].attempts) = 2
        /\ call[c].err = nilErr
        /\ call[c].response = [api |-> apiV1alpha4, op |-> call[c].op]

\* C4: a call that starts when a version is stored makes one attempt, on
\* the stored version it reads: it dials nothing, probes nothing else,
\* returns that attempt's outcome (Unimplemented included) and stores
\* nothing.
C4_StoredVersionOnly ==
    \A c \in Callers :
        (pc[c] # "idle" /\ call[c].startAPI # apiUnknown)
           => /\ pc[c] # "waiting"
              /\ call[c].connErr = nilErr
              /\ call[c].dials = 0
              /\ call[c].stored = apiUnknown
              /\ supportedAPI[handle[c]] # apiUnknown
              /\ PastGetConn(c) => call[c].readAPI \in {apiV1alpha4, apiV1beta1}
              /\ Len(call[c].attempts) <= 1
              /\ \A i \in 1..Len(call[c].attempts) :
                    call[c].attempts[i].api = call[c].readAPI
              /\ pc[c] \in {"rpc", "observe", "after"}
                    => call[c].api = call[c].readAPI
              /\ pc[c] = "rpc" => call[c].attempts = <<>>
              /\ pc[c] = "return"
                    => /\ Len(call[c].attempts) = 1
                       /\ call[c].err = call[c].attempts[1].err

\* A call that started with v1alpha4 stored returns the Unimplemented of its
\* only attempt, made on v1alpha4.
C4_Witness ==
    \E c \in Callers :
        /\ pc[c] = "return"
        /\ call[c].startAPI = apiV1alpha4
        /\ Len(call[c].attempts) = 1
        /\ call[c].attempts[1].api = apiV1alpha4
        /\ call[c].attempts[1].conn = call[c].conn
        /\ call[c].attempts[1].err = "Unimplemented"
        /\ supportedAPI[handle[c]] = apiV1alpha4

\* The call record r read unknown and got Unimplemented from both attempts.
BothUnimplemented(r) ==
    /\ r.readAPI = apiUnknown
    /\ Len(r.attempts) = 2
    /\ Code(r.attempts[1].err) = "Unimplemented"
    /\ Code(r.attempts[2].err) = "Unimplemented"

\* C5: a call that read unknown and got Unimplemented from v1beta1 and from
\* v1alpha4 returns Unimplemented and stores nothing: with no other call
\* around the stored version is still unknown, and the call that follows it
\* starts from unknown and probes v1beta1 again.
C5_BothUnimplementedStoresNothing ==
    \A c \in Callers :
        /\ (BothUnimplemented(call[c]) /\ pc[c] \in {"after", "return"})
              => /\ call[c].stored = apiUnknown
                 /\ call[c].err = "Unimplemented"
                 /\ call[c].response = NilResponse
                 /\ call[c].solo => supportedAPI[handle[c]] = apiUnknown
        /\ (BothUnimplemented(prev[c]) /\ prev[c].solo)
              => /\ call[c].startAPI = apiUnknown
                 /\ (call[c].solo /\ PastGetConn(c))
                       => call[c].readAPI = apiUnknown
                 /\ (call[c].solo /\ Len(call[c].attempts) >= 1)
                       => call[c].attempts[1].api = apiV1beta1

\* The call that follows one with two Unimplemented answers has probed
\* v1beta1 again.
C5_Witness ==
    \E c \in Callers :
        /\ BothUnimplemented(prev[c]) /\ prev[c].solo
        /\ call[c].solo
        /\ Len(call[c].attempts) >= 1
        /\ call[c].attempts[1].api = apiV1beta1

\* C6: a call that read unknown stores the version of its last attempt
\* whenever that attempt did not end with Unimplemented, and once v1beta1
\* has been stored (for instance after a deadline error of the v1beta1
\* attempt) every call that starts afterwards uses v1beta1 only.
C6_SettledVersionUsedByLaterCalls ==
    \A c \in Callers :
        /\ (pc[c] = "return" /\ HasConn(c) /\ call[c].readAPI = apiUnknown
              /\ Code(call[c].err) # "Unimplemented")
              => call[c].stored = LastAttempt(call[c]).api
        /\ call[c].startAPI = apiV1beta1
              => \A i \in 1..Len(call[c].attempts) :
                    call[c].attempts[i].api = apiV1beta1

\* C7: a getOrCreateGRPCConn whose dial failed or whose wait expired returns
\* the error with no connection and leaves p.conn nil (a connection is only
\* stored after its wait succeeded); the next getOrCreateGRPCConn dials
\* afresh.
C7_FailedDialLeavesNoConn ==
    /\ \A p \in PluginNames :
          /\ conn[p] # NilConn => dialLog[p][conn[p]] = "stored"
          /\ \A i \in 1..(Len(dialLog[p]) - 1) :
                dialLog[p][i] \in {"error", "abandoned"}
    /\ \A c \in Callers :
          /\ call[c].connErr # nilErr
                => /\ call[c].connErr \in {errDial, errTimedOut}
                   /\ call[c].conn = NilConn
                   /\ call[c].pconn = NilConn
                   /\ call[c].dials = 1
                   /\ dialLog[handle[c]] # <<>>
          /\ (prev[c].connErr # nilErr /\ prev[c].solo /\ call[c].solo
                /\ PastGetConn(c))
                => /\ call[c].dials = 1
                   /\ Len(dialLog[handle[c]]) >= 2

\* The call after one whose connect-wait expired has dialed again and has
\* got a connection.
C7_Witness ==
    \E c \in Callers :
        /\ prev[c].connErr = errTimedOut /\ prev[c].solo
        /\ call[c].solo
        /\ HasConn(c)
        /\ call[c].dials = 1
        /\ dialLog[handle[c]] = <<"abandoned", "stored">>

\* C8: when getOrCreateGRPCConn fails the dispatch call returns that error
\* and a nil response, having made no attempt on any version, no
\* observation, one dial only, and no store of a version.
C8_ConnErrorReturnedAsIs ==
    \A c \in Callers :
        call[c].connErr # nilErr
           => /\ pc[c] = "return"
              /\ call[c].err = call[c].connErr
              /\ call[c].response = NilResponse
              /\ call[c].attempts = <<>>
              /\ call[c].api = ""
              /\ call[c].obs = <<>>
              /\ call[c].dials = 1
              /\ call[c].stored = apiUnknown

\* A NodeUnprepareResources call is returning the error of the expired wait
\* while the other caller's call returns the dial error.
C8_Witness ==
    \E c, d \in Callers :
        /\ pc[c] = "return" /\ pc[d] = "return"
        /\ call[c].op = "NodeUnprepareResources"
        /\ call[c].err = errTimedOut
        /\ call[d].err = errDial

\* The callers inside the interceptor whose attempt ended with label values
\* l and is not observed yet.
Unobserved(l) ==
    {c \in Callers : pc[c] = "observe" /\ AttemptLabel(c, call[c].err) = l}

\* C9: every attempt gets one observation, made once the attempt has
\* ended, with the plugin name, the method and the status code of that
\* attempt; Unimplemented on v1beta1 followed by success on v1alpha4 gives
\* two observations with different status labels.
C9_OneObservationPerAttempt ==
    /\ \A l \in Labels :
          DRAGRPCOperationsDuration[l] = answered[l] - Cardinality(Unobserved(l))
    /\ \A c \in Callers :
          LET a == call[c].attempts
              o == call[c].obs
          IN /\ Len(o) = IF pc[c] = "observe" THEN Len(a) - 1 ELSE Len(a)
             /\ \A i \in 1..Len(o) :
                   o[i] = <<handle[c], Method(a[i].api, call[c].op),
                            Code(a[i].err)>>
             /\ (pc[c] = "return" /\ Len(a) = 2 /\ a[2].err = nilErr)
                   => /\ Len(o) = 2
                      /\ o[1][3] = "Unimplemented" /\ o[2][3] = "OK"

\* A call returns after Unimplemented on v1beta1 and success on v1alpha4,
\* both observed.
C9_Witness ==
    \E c \in Callers :
        /\ pc[c] = "return"
        /\ Len(call[c].attempts) = 2
        /\ call[c].err = nilErr
        /\ call[c].obs =
              <<<<handle[c], Method(apiV1beta1, call[c].op), "Unimplemented">>,
                <<handle[c], Method(apiV1alpha4, call[c].op), "OK">>>>
        /\ DRAGRPCOperationsDuration[
              <<handle[c], Method(apiV1alpha4, call[c].op), "OK">>] >= 1

\* The call record r is a call of op that ran alone on a cold Plugin (it
\* made the connection), got Unimplemented on v1beta1 and succeeded on
\* v1alpha4.
FellBackAndSucceeded(r, op) ==
    /\ r.op = op
    /\ r.solo
    /\ r.dials = 1
    /\ r.readAPI = apiUnknown
    /\ Len(r.attempts) = 2
    /\ Code(r.attempts[1].err) = "Unimplemented"
    /\ r.attempts[2].api = apiV1alpha4
    /\ r.attempts[2].err = nilErr

\* C10: the stored version is shared by the two operations: the call of the
\* other operation that follows a call which fell back to v1alpha4 and
\* succeeded goes to v1alpha4 directly, on the same connection, and the two
\* calls make three observations, two and one.
C10_VersionSharedAcrossOperations ==
    \A c \in Callers, op \in Ops :
        (FellBackAndSucceeded(prev[c], op) /\ call[c].op = OtherOp(op))
           => /\ call[c].startAPI = apiV1alpha4
              /\ PastGetConn(c)
                    => /\ call[c].readAPI = apiV1alpha4
                       /\ call[c].dials = 0
                       /\ call[c].conn = prev[c].conn
              /\ \A i \in 1..Len(call[c].attempts) :
                    call[c].attempts[i].api = apiV1alpha4
              /\ pc[c] = "rpc" => call[c].api = apiV1alpha4
              /\ Len(prev[c].obs) = 2
              /\ pc[c] = "return"
                    => /\ Len(call[c].attempts) = 1
                       /\ Len(prev[c].obs) + Len(call[c].obs) = 3

\* NodeUnprepareResources returns its success on v1alpha4 after a
\* NodePrepareResources call that fell back to v1alpha4.
C10_Witness ==
    \E c \in Callers :
        /\ pc[c] = "return"
        /\ FellBackAndSucceeded(prev[c], "NodePrepareResources")
        /\ call[c].op = "NodeUnprepareResources"
        /\ call[c].err = nilErr
        /\ call[c].response = [api |-> apiV1alpha4, op |-> "NodeUnprepareResources"]
        /\ Len(call[c].obs) = 1

\* C12: NewDRAPluginClient gives an error and no Plugin for the empty name
\* and for a name that is not registered, and nothing is dialed or called
\* for it; for a registered name it gives the registry's Plugin, so callers
\* that looked up the same name share its connection and its version.
C12_LookupGivesRegisteredPluginOrError ==
    /\ \A c \in Callers :
          /\ (lookupName[c] = "" \/ lookupName[c] \in PluginNames \ draPlugins)
                => /\ lookupErr[c]
                   /\ handle[c] = NilPlugin
          /\ lookupName[c] \in draPlugins
                => /\ ~lookupErr[c]
                   /\ handle[c] = lookupName[c]
          /\ handle[c] = NilPlugin
                => /\ pc[c] = "idle"
                   /\ call[c] = NoCall
    /\ \A p \in PluginNames \ draPlugins :
          /\ dialLog[p] = <<>>
          /\ conn[p] = NilConn
          /\ supportedAPI[p] = apiUnknown
          /\ \A l \in Labels : l[1] = p => answered[l] = 0
    /\ \A c, d \in Callers :
          (lookupName[c] = lookupName[d] /\ HasConn(c) /\ HasConn(d))
             => /\ handle[c] = handle[d]
                /\ call[c].conn = call[d].conn
                /\ call[c].conn = conn[handle[d]]

\* One caller's lookup of a name that is not registered has failed; the
\* other caller, who looked up a registered name, is in a call on the
\* connection of that Plugin.
C12_Witness ==
    \E c, d \in Callers :
        /\ lookupName[c] = "driver-B" /\ lookupErr[c] /\ handle[c] = NilPlugin
        /\ lookupName[d] = "driver-A" /\ handle[d] = "driver-A"
        /\ pc[d] = "rpc"
        /\ call[d].conn = conn["driver-A"]

\* C13 as stated: after a call that ended with a deadline error, the stored
\* connection and the stored version of the Plugin are what they were
\* before the call (no other call being around).
C13_DeadlineLeavesPluginAsBefore ==
    \A c \in Callers :
        (pc[c] = "return" /\ call[c].solo
           /\ call[c].err = "DeadlineExceeded")
           => /\ conn[handle[c]] = call[c].startConn
              /\ supportedAPI[handle[c]] = call[c].startAPI

\* The connection objects of Plugin p that grpc.Dial returned and that were
\* not closed (no connection is ever closed).
LiveConns(p) ==
    {i \in 1..Len(dialLog[p]) : dialLog[p][i] \in {"waiting", "stored", "abandoned"}}

\* C15: a Plugin has at most one connection object that was dialed and not
\* closed, the attempts whose wait expired included.
C15_AtMostOneLiveConn ==
    \A p \in PluginNames : Cardinality(LiveConns(p)) <= 1

\* C16: no caller holds the mutex while its attempt is in flight: during an
\* attempt the mutex of the Plugin is free and the connection is stored, so
\* another caller gets the connection and starts its own attempt.
C16_NoMutexDuringRPC ==
    \A c \in Callers :
        pc[c] \in {"rpc", "observe"}
           => /\ mutex[handle[c]] # c
              /\ mutex[handle[c]] = Unlocked
              /\ ConnIsSet(handle[c])
              /\ \A d \in Callers :
                    (handle[d] = handle[c] /\ pc[d] = "getconn")
                       => CanLock(handle[d])

\* Two first calls have their attempts in flight at the same time; one of
\* them made the connection, the other got it from the Plugin.
C16_Witness ==
    \E c, d \in Callers :
        /\ c # d
        /\ handle[c] = handle[d]
        /\ pc[c] = "rpc" /\ pc[d] = "rpc"
        /\ call[c].dials = 1 /\ call[d].dials = 0
        /\ call[c].attempts = <<>> /\ call[d].attempts = <<>>
        /\ lastDone[handle[c]] = NoCall

\* C17: a caller reads and writes conn and supportedAPI of a Plugin only
\* with the mutex of the Plugin (free before its step, or held by itself,
\* never held by another caller), and no step changes name, endpoint or
\* clientCallTimeout.
C17_SharedFieldsUnderMutex ==
    [][/\ plugins' = plugins
       /\ \A c \in Callers :
             (pc'[c] # pc[c] /\ handle[c] # NilPlugin)
                => ((\/ conn'[handle[c]] # conn[handle[c]]
                     \/ supportedAPI'[handle[c]] # supportedAPI[handle[c]]
                     \/ pc[c] = "getconn")
                       => mutex[handle[c]] \in {Unlocked, c})]_vars

\* A call has written both fields: it made the connection and stored the
\* version it fell back to, while the other caller waits for the mutex or
\* has not got further than that.
C17_Witness ==
    \E c, d \in Callers :
        /\ c # d
        /\ pc[c] = "return"
        /\ call[c].dials = 1
        /\ call[c].stored = apiV1alpha4
        /\ supportedAPI[handle[c]] = apiV1alpha4
        /\ pc[d] = "getconn"
        /\ handle[d] = handle[c]

\* The callers inside the dial and connect-wait of Plugin p.
Dialing(p) == {c \in Callers : handle[c] = p /\ pc[c] = "waiting"}

\* C18: at most one dial with its wait is in flight for a Plugin, failed
\* dials included: the caller in it holds the mutex, and every earlier dial
\* of the Plugin is over.
C18_OneDialInFlight ==
    \A p \in PluginNames :
        /\ Cardinality(Dialing(p)) <= 1
        /\ \A c \in Dialing(p) : mutex[p] = c
        /\ \A i \in 1..Len(dialLog[p]) :
              dialLog[p][i] = "waiting"
                 => /\ i = Len(dialLog[p])
                    /\ Dialing(p) # {}
        /\ Dialing(p) # {} => dialLog[p][Len(dialLog[p])] = "waiting"

\* A caller is in its dial while the call of the other caller, which
\* overlapped it, has come back from a dial whose wait expired.
C18_Witness ==
    \E c, d \in Callers :
        /\ c # d
        /\ handle[c] = handle[d]
        /\ pc[c] = "waiting"
        /\ ~call[c].solo
        /\ pc[d] = "return"
        /\ call[d].connErr = errTimedOut
        /\ dialLog[handle[c]] = <<"abandoned", "waiting">>

\* C20: once a connection is stored on a Plugin no step clears or replaces
\* it and no dial is made; every getOrCreateGRPCConn returns it, with no
\* dial and no wait, whatever the attempts on it ended with.
C20_StoredConnIsKept ==
    [][\A p \in PluginNames :
          conn[p] # NilConn
             => /\ conn'[p] = conn[p]
                /\ dialLog'[p] = dialLog[p]
                /\ \A c \in Callers :
                      (handle[c] = p /\ pc[c] = "getconn" /\ pc'[c] # "getconn")
                         => /\ pc'[c] = "switch"
                            /\ call'[c].conn = conn[p]
                            /\ call'[c].dials = 0]_vars

\* A call returns a deadline error from the connection that the call before
\* it made and that also ended in a deadline error; the connection is
\* still the stored one.
C20_Witness ==
    \E c \in Callers :
        /\ pc[c] = "return"
        /\ call[c].dials = 0
        /\ call[c].err = "DeadlineExceeded"
        /\ prev[c].dials = 1
        /\ prev[c].err = "DeadlineExceeded"
        /\ call[c].conn = prev[c].conn
        /\ conn[handle[c]] = prev[c].conn


\* The earlier one of two deadlines, of which the first may be none.
Tighter(ctx, d) == IF ctx = NoDeadline \/ d < ctx THEN d ELSE ctx

\* The bound of the call of caller c: the tighter one of the deadline of the
\* caller's context and of clientCallTimeout after the connection was
\* obtained.
Bound(c) ==
    Tighter(timer[c].ctx, timer[c].connAt + plugins[handle[c]].clientCallTimeout)

\* C11: with its connection obtained, a call is bound by the tighter one of
\* the caller's deadline and clientCallTimeout: the clock does not pass the
\* bound while an attempt of the call is in flight, and an attempt that was
\* not answered before the bound ends with the deadline error.
C11_CallBoundByTighterDeadline ==
    [][\A c \in Callers :
          /\ (pc[c] = "rpc" /\ pc'[c] = "rpc" /\ now' # now)
                => now' <= Bound(c)
          /\ (pc[c] = "rpc" /\ pc'[c] = "observe" /\ now >= Bound(c))
                => call'[c].err = "DeadlineExceeded"]_vars

\* Two attempts have just ended with the deadline error at their bound: the
\* one of a call whose caller set no deadline, bound by clientCallTimeout,
\* and the one of a call bound by the caller's earlier deadline.
C11_Witness ==
    \E c, d \in Callers :
        /\ pc[c] = "observe" /\ pc[d] = "observe"
        /\ call[c].err = "DeadlineExceeded"
        /\ call[d].err = "DeadlineExceeded"
        /\ timer[c].ctx = NoDeadline
        /\ now = timer[c].connAt + plugins[handle[c]].clientCallTimeout
        /\ timer[d].ctx # NoDeadline
        /\ timer[d].ctx < timer[d].connAt + plugins[handle[d]].clientCallTimeout
        /\ now = timer[d].ctx

\* C14: when the backgroundCtx of a Plugin is cancelled while a caller is
\* in the connect-wait of getOrCreateGRPCConn, the wait ends at the
\* cancellation: no caller is still in a wait after the second in which the
\* context was cancelled during that wait.
C14_CancelEndsConnectWait ==
    \A c \in Callers :
        (/\ pc[c] = "waiting"
         /\ cancelledAt[handle[c]] # NotCancelled
         /\ cancelledAt[handle[c]] >= timer[c].waitEnd - ConnectWait)
           => now <= cancelledAt[handle[c]]

\* C19: no lock spans Plugins.  A step of a caller of one Plugin leaves
\* conn, supportedAPI, the mutex and the dials of every other Plugin as
\* they are; a mutex is held by a caller of its own Plugin only; and a
\* caller gets the mutex of its Plugin unless a caller of the same Plugin is
\* in its dial.
C19_NoLockSpansPlugins ==
    [][/\ \A c \in Callers :
             (pc'[c] # pc[c] /\ handle[c] # NilPlugin)
                => \A q \in PluginNames \ {handle[c]} :
                      /\ conn'[q] = conn[q]
                      /\ supportedAPI'[q] = supportedAPI[q]
                      /\ mutex'[q] = mutex[q]
                      /\ dialLog'[q] = dialLog[q]
       /\ \A q \in PluginNames :
             /\ mutex'[q] # Unlocked => handle'[mutex'[q]] = q
             /\ (\A e \in Callers : handle'[e] = q => pc'[e] # "waiting")
                   => mutex'[q] = Unlocked]_vars

\* The callers of two Plugins are in their connect-waits at the same time,
\* each holding the mutex of its own Plugin.
C19_Witness ==
    \E c, d \in Callers :
        /\ handle[c] = "driver-A" /\ handle[d] = "driver-B"
        /\ pc[c] = "waiting" /\ pc[d] = "waiting"
        /\ mutex["driver-A"] = c /\ mutex["driver-B"] = d


\* Caller c is in the v1alpha4 attempt of a call that fell back.
InFallbackAttempt(c) ==
    /\ pc[c] = "rpc"
    /\ call[c].readAPI = apiUnknown
    /\ Len(call[c].attempts) = 1

\* C21: the v1alpha4 attempt of a call runs under the deadline derived for
\* the call before its v1beta1 attempt: the fallback leaves the deadline as
\* it is, the clock does not pass clientCallTimeout after the connection was
\* obtained while the fallback attempt is in flight, and a fallback attempt
\* not answered by then ends with the deadline error.
C21_FallbackSharesDeadline ==
    [][\A c \in Callers :
          /\ (pc[c] = "after" /\ pc'[c] = "rpc")
                => timer'[c].deadline = timer[c].deadline
          /\ (InFallbackAttempt(c) /\ pc'[c] = "rpc" /\ now' # now)
                => now' <= timer[c].connAt + plugins[handle[c]].clientCallTimeout
          /\ (InFallbackAttempt(c) /\ pc'[c] = "observe"
                /\ now >= timer[c].connAt + plugins[handle[c]].clientCallTimeout)
                => call'[c].err = "DeadlineExceeded"]_vars

\* A call whose caller set no deadline fell back after part of its time was
\* spent in the v1beta1 attempt; its v1alpha4 attempt has just ended with the
\* deadline error, clientCallTimeout after the connection was obtained.
C21_Witness ==
    \E c \in Callers :
        /\ pc[c] = "observe"
        /\ timer[c].ctx = NoDeadline
        /\ Len(call[c].attempts) = 2
        /\ call[c].attempts[1].err = "Unimplemented"
        /\ call[c].attempts[2].api = apiV1alpha4
        /\ call[c].attempts[2].err = "DeadlineExceeded"
        /\ timer[c].fallbackAt > timer[c].connAt
        /\ now > timer[c].fallbackAt
        /\ now = timer[c].connAt + plugins[handle[c]].clientCallTimeout

\* C22: no error is swallowed.  A call that returns has the error of
\* getOrCreateGRPCConn and made no attempt, or it has the error of its last
\* attempt, nil exactly when that attempt succeeded; the one error dropped
\* is the Unimplemented of the v1beta1 attempt of a call that read the
\* version as unknown and then made its v1alpha4 attempt.
C22_NoErrorSwallowed ==
    \A c \in Callers :
        pc[c] = "return"
           => /\ call[c].connErr # nilErr
                    => /\ call[c].err = call[c].connErr
                       /\ call[c].attempts = <<>>
                       /\ call[c].response = NilResponse
              /\ call[c].connErr = nilErr
                    => /\ call[c].attempts # <<>>
                       /\ call[c].err = LastAttempt(call[c]).err
                       /\ (call[c].err = nilErr) = (call[c].response # NilResponse)
                       /\ \A i \in 1..(Len(call[c].attempts) - 1) :
                             /\ i = 1
                             /\ Len(call[c].attempts) = 2
                             /\ call[c].readAPI = apiUnknown
                             /\ call[c].attempts[i].api = apiV1beta1
                             /\ call[c].attempts[i].err = "Unimplemented"
                             /\ call[c].attempts[2].api = apiV1alpha4

\* A call returns the deadline error of its v1alpha4 attempt, having dropped
\* the Unimplemented of its v1beta1 attempt, while the call of the other
\* caller returns the error of its failed dial.
C22_Witness ==
    \E c, d \in Callers :
        /\ pc[c] = "return" /\ pc[d] = "return"
        /\ Len(call[c].attempts) = 2
        /\ call[c].attempts[1].err = "Unimplemented"
        /\ call[c].err = "DeadlineExceeded"
        /\ call[c].response = NilResponse
        /\ call[d].err = errDial
        /\ call[d].attempts = <<>>

\* The errors and the versions of the attempts of the call record r.
AttemptErrs(r) == [i \in 1..Len(r.attempts) |-> r.attempts[i].err]

AttemptAPIs(r) == [i \in 1..Len(r.attempts) |-> r.attempts[i].api]

\* The sequence s is the beginning of the sequence t.
IsPrefix(s, t) ==
    /\ Len(s) <= Len(t)
    /\ \A i \in 1..Len(s) : s[i] = t[i]

\* C24: NodePrepareResources and NodeUnprepareResources are one state
\* machine.  Two calls of the two operations that got the same version from
\* getOrCreateGRPCConn and whose attempts were answered alike, as far as
\* they went, have made the same attempts on the same versions, return the
\* same error and a response of the same version, and have stored the same
\* version; neither has touched the connection.
C24_PrepareUnprepareAlike ==
    \A c, d \in Callers :
        (/\ pc[c] = "return" /\ pc[d] = "return"
         /\ call[c].op = "NodePrepareResources"
         /\ call[d].op = "NodeUnprepareResources"
         /\ HasConn(c) /\ HasConn(d)
         /\ call[c].readAPI = call[d].readAPI
         /\ \/ IsPrefix(AttemptErrs(call[c]), AttemptErrs(call[d]))
            \/ IsPrefix(AttemptErrs(call[d]), AttemptErrs(call[c])))
           => /\ AttemptErrs(call[c]) = AttemptErrs(call[d])
              /\ AttemptAPIs(call[c]) = AttemptAPIs(call[d])
              /\ call[c].err = call[d].err
              /\ call[c].response.api = call[d].response.api
              /\ call[c].stored = call[d].stored
              /\ call[c].conn = call[d].conn
              /\ conn[handle[c]] = call[c].conn

\* A NodePrepareResources and a NodeUnprepareResources call both read the
\* version as unknown, both got Unimplemented and then success, and both
\* have stored v1alpha4.
C24_Witness ==
    \E c, d \in Callers :
        /\ pc[c] = "return" /\ pc[d] = "return"
        /\ call[c].op = "NodePrepareResources"
        /\ call[d].op = "NodeUnprepareResources"
        /\ call[c].readAPI = apiUnknown /\ call[d].readAPI = apiUnknown
        /\ AttemptErrs(call[c]) = <<"Unimplemented", nilErr>>
        /\ AttemptErrs(call[d]) = <<"Unimplemented", nilErr>>
        /\ call[c].stored = apiV1alpha4 /\ call[d].stored = apiV1alpha4

\* C25: a Plugin with a stored version has a stored connection;
\* getOrCreateGRPCConn returns a connection and no error, or no connection
\* and an error; and the call that made the connection got the version "".
C25_VersionImpliesConn ==
    /\ \A p \in PluginNames :
          supportedAPI[p] # apiUnknown => conn[p] # NilConn
    /\ \A c \in Callers :
          PastGetConn(c)
             => /\ \/ call[c].conn # NilConn /\ call[c].connErr = nilErr
                   \/ call[c].conn = NilConn /\ call[c].connErr # nilErr
                /\ (call[c].dials = 1 /\ call[c].connErr = nilErr)
                      => call[c].readAPI = apiUnknown

\* The call that made the connection got the version "" and has stored
\* v1beta1 on the Plugin, while the call of the other caller, whose wait had
\* expired before, returns its error and no connection.
C25_Witness ==
    \E c, d \in Callers :
        /\ pc[c] = "return" /\ pc[d] = "return"
        /\ call[c].dials = 1
        /\ call[c].conn # NilConn
        /\ call[c].readAPI = apiUnknown
        /\ supportedAPI[handle[c]] = apiV1beta1
        /\ conn[handle[c]] = call[c].conn
        /\ call[d].connErr = errTimedOut
        /\ call[d].conn = NilConn


\* C23: every dispatch call returns and the mutex of the Plugin becomes
\* free again, whatever the interleaving of the callers, when every dial,
\* connect-wait and attempt completes.
C23_EveryCallReturns ==
    /\ \A c \in Callers : (pc[c] # "idle") ~> (pc[c] = "idle")
    /\ \A p \in PluginNames : (mutex[p] # Unlocked) ~> (mutex[p] = Unlocked)

\* A caller holds the mutex in its connect-wait while the other caller is
\* blocked at the Lock of getOrCreateGRPCConn.
C23_Witness ==
    \E c, d \in Callers :
        /\ c # d
        /\ handle[c] = handle[d]
        /\ pc[c] = "waiting"
        /\ mutex[handle[c]] = c
        /\ pc[d] = "getconn"



(***************************************************************************)
(* The DynamicWeight scheduler plugin.                                     *)
(***************************************************************************)

\* The entry of the node is as old as the timeout, or older.
ExpiredEntry(n) == data[n] # NilUsage /\ clock - data[n].Timestamp >= CacheTimeout

\* C26: NodeUsageCache.Get returns a usage for a node exactly when the last
\* Set for that node is less than the timeout ago, and then the usage that
\* Set stored; a Set for one node changes what Get returns for no other
\* node.
C26_GetIffRecentSet ==
    /\ [](\A n \in Nodes :
            /\ CacheGet(n) # NilUsage
                 <=> (lastSet[n] # NoTime /\ clock - lastSet[n] < CacheTimeout)
            /\ CacheGet(n) # NilUsage
                 => CacheGet(n) = data[n] /\ data[n].Timestamp = lastSet[n])
    /\ [][\A n \in Nodes :
            lastSet'[n] # lastSet[n] /\ clock' = clock
              => \A other \in Nodes \ {n} : CacheGet(other)' = CacheGet(other)]_vars

\* The entry of node-1 has expired and Get returns nil for it, while Get
\* returns the entry of node-2, stored later with other values.
C26_Witness ==
    /\ lastSet["node-1"] # NoTime
    /\ CacheGet("node-1") = NilUsage
    /\ CacheGet("node-2") # NilUsage
    /\ lastSet["node-2"] > lastSet["node-1"]
    /\ data["node-2"].CPU # data["node-1"].CPU

\* The scheduler keeps running: time passes, New returns, and every node
\* keeps being scored.
FairnessDW ==
    /\ WF_vars(Advance)
    /\ WF_vars(\E outcome \in LoadOutcomes : \E config \in Decoded(outcome) :
                  New(outcome, config))
    /\ \A n \in Nodes : WF_vars(\E label \in PodLabels : Score(label, n))

SpecDWLive == InitDW /\ [][NextDW]_vars /\ FairnessDW

\* C27: the cache cleans up expired entries: an entry whose age has reached
\* the timeout is eventually removed from the data map.
C27_ExpiredEntryRemoved ==
    \A n \in Nodes : ExpiredEntry(n) ~> (data[n] = NilUsage)


\* C28: a reload that fails (the ConfigMap is not fetched, has no
\* config.json, or is not decoded) leaves the active weights as they were; a
\* load that succeeds makes GetWeights return the new configuration as a
\* whole; when the initial load fails, New returns the error and no informer
\* is started.
C28_FailedLoadKeepsWeights ==
    /\ [][lastLoad'.outcome # "ok" => args' = args]_vars
    /\ [](lastLoad.outcome = "ok" => GetWeights = lastLoad.config)
    /\ [](dwState = "failed" => ~informer /\ lastLoad.outcome # "ok")
    /\ [](informer <=> dwState = "ready")

\* The informer has reloaded the weights and the decoding failed, after a
\* load that succeeded.
C28_Witness ==
    /\ informer
    /\ lastLoad.outcome = "parse error"
    /\ GetWeights = UpdatedConfig


\* A Score call was made in the step.
Scored == lastCall' # lastCall

\* C29: getRealNodeUsage reads the cache first.  On a hit it returns the
\* cached usage and makes no node lookup and no query.  On a miss, a failed
\* node lookup, a node without internal IP, a failed CPU query and a failed
\* memory query each end the call with an error and leave the cache as it
\* was; a failed disk query gives the disk usage 0.3 and a failed network
\* query the network usage 0.2; the usage is stored in the cache, from
\* where the next calls get it.
C29_CacheFirstThenPrometheus ==
    [][Scored =>
         LET c == lastCall'
             cached == CacheGet(c.node)
         IN /\ c.hit <=> cached # NilUsage
            /\ c.hit => /\ c.usage = cached /\ c.err = nilErr
                        /\ c.lookups = 0 /\ c.queries = 0
                        /\ data' = data
            /\ ~c.hit /\ c.asked.lookup = "error" => c.err = errNodeLookup
            /\ ~c.hit /\ c.asked.lookup = "no internal IP"
                 => c.err = errNoInternalIP
            /\ ~c.hit /\ c.asked.lookup = "ok"
                 => c.err = IF c.asked.m["cpu"] = QueryFailed THEN errCPUQuery
                            ELSE IF c.asked.m["memory"] = QueryFailed
                                 THEN errMemQuery
                                 ELSE nilErr
            /\ c.err # nilErr
                 => c.usage = NilUsage /\ data' = data /\ c.queries < 4
            /\ ~c.hit /\ c.err = nilErr
                 => /\ c.usage.CPU = c.asked.m["cpu"]
                    /\ c.usage.Memory = c.asked.m["memory"]
                    /\ c.usage.DiskIO =
                         IF c.asked.m["diskio"] = QueryFailed THEN DiskDefault
                         ELSE c.asked.m["diskio"]
                    /\ c.usage.Network =
                         IF c.asked.m["netio"] = QueryFailed THEN NetDefault
                         ELSE NetQueryValue(c.asked.m["netio"])
                    /\ c.lookups = 1 /\ c.queries = 4
                    /\ data' = [data EXCEPT ![c.node] = c.usage]
                    /\ \A n \in Nodes :
                          n = c.node => CacheGet(n)' = c.usage]_vars

\* The last call missed the cache, its CPU and memory queries were answered
\* and its disk and network queries failed: the usage it returned and
\* stored has the two defaults.
C29_Witness ==
    /\ lastCall.node = "node-1"
    /\ ~lastCall.hit /\ lastCall.err = nilErr
    /\ lastCall.asked.m["diskio"] = QueryFailed
    /\ lastCall.asked.m["netio"] = QueryFailed
    /\ lastCall.usage.DiskIO = DiskDefault
    /\ lastCall.usage.Network = NetDefault
    /\ data["node-1"] = lastCall.usage
    /\ CacheGet("node-1") = lastCall.usage


\* C30: Score returns a score from 0 to 100 for every pod and node whose
\* usage is available: int64 of the weighted sum of (1 - usage), times 100,
\* is never below 0 and never above 100.
C30_ScoreWithinRange ==
    lastCall.node # "" /\ lastCall.err = nilErr
      => lastCall.score >= 0 /\ lastCall.score <= 100

====
